---- MODULE Spec2Model ----
(***************************************************************************)
(* Model of ncnn's PipelineCache (src/src/pipelinecache.cpp): the digest   *)
(* key, the cache store (cache_digests / cache_artifacts), the shader      *)
(* variant selection of create_shader_module, the resource construction    *)
(* and unwind of new_pipeline, the two get_pipeline entry points and       *)
(* clear().  Both builds of create_shader_module are modelled: the one     *)
(* with the variant table and the one with NCNN_VULKAN_ONLINE_SPIRV.       *)
(***************************************************************************)
EXTENDS Integers, Sequences, FiniteSets, TLC

(***************************************************************************)
(* 32-bit unsigned arithmetic.  A uint32_t is the pair <<hi, lo>> of its   *)
(* two 16-bit halves, so that every intermediate value fits the checker's  *)
(* integers and every operation wraps at 2^32 as in the C++ source.        *)
(***************************************************************************)
Half == 65536

U32(hi, lo) == <<hi, lo>>

RECURSIVE Xor16(_, _)
Xor16(a, b) ==
    IF a = 0 THEN b
    ELSE IF b = 0 THEN a
    ELSE 2 * Xor16(a \div 2, b \div 2) + ((a + b) % 2)

Xor32(a, b) == <<Xor16(a[1], b[1]), Xor16(a[2], b[2])>>

Add32(a, b) ==
    LET lo == a[2] + b[2]
    IN  <<(a[1] + b[1] + (lo \div Half)) % Half, lo % Half>>

\* x * y mod 2^16 for 16-bit x, y, through the bytes of y
MulLow16(x, y) == ((x * (y % 256)) + ((x * (y \div 256)) % 256) * 256) % Half

Mul32(a, b) ==
    LET p1  == a[2] * (b[2] % 256)
        p2  == a[2] * (b[2] \div 256)
        low == p1 + (p2 % 256) * 256
        car == (low \div Half) + (p2 \div 256)
    IN  <<(car + MulLow16(a[1], b[2]) + MulLow16(a[2], b[1])) % Half, low % Half>>

RECURSIVE Pow2(_)
Pow2(n) == IF n = 0 THEN 1 ELSE 2 * Pow2(n - 1)

\* (w << r) | (w >> (32 - r)), 0 < r < 16
Rotl32(w, r) ==
    <<((w[1] * Pow2(r)) % Half) + (w[2] \div Pow2(16 - r)),
      ((w[2] * Pow2(r)) % Half) + (w[1] \div Pow2(16 - r))>>

\* w >> r, r in {13, 16}
Shr32(w, r) ==
    IF r = 16 THEN <<0, w[1]>>
    ELSE <<w[1] \div Pow2(r), (w[2] \div Pow2(r)) + (w[1] % Pow2(r)) * Pow2(16 - r)>>

\* the four bytes of a word as they lie in (little-endian) memory
BytesOf(w) == <<w[2] % 256, w[2] \div 256, w[1] % 256, w[1] \div 256>>

RECURSIVE murmur3_loop(_, _, _)
murmur3_loop(data, i, h) ==
    IF i > Len(data) THEN h
    ELSE LET k1 == Mul32(data[i], U32(52382, 11601))      \* 0xcc9e2d51
             k2 == Rotl32(k1, 15)
             k3 == Mul32(k2, U32(7047, 13715))            \* 0x1b873593
             h1 == Xor32(h, k3)
             h2 == Rotl32(h1, 13)
             h3 == Add32(Mul32(h2, U32(0, 5)), U32(58964, 27492))  \* 0xe6546b64
         IN  murmur3_loop(data, i + 1, h3)

murmur3_32(data) ==
    LET h0 == murmur3_loop(data, 1, U32(0, 0))
        h1 == Xor32(h0, U32(0, Len(data) * 4))
        h2 == Xor32(h1, Shr32(h1, 16))
        h3 == Mul32(h2, U32(34283, 51819))                \* 0x85ebca6b
        h4 == Xor32(h3, Shr32(h3, 13))
        h5 == Mul32(h4, U32(49842, 44597))                \* 0xc2b2ae35
    IN  Xor32(h5, Shr32(h5, 16))

RECURSIVE fnv1a_loop(_, _, _)
fnv1a_loop(bytes, i, h) ==
    IF i > Len(bytes) THEN h
    ELSE fnv1a_loop(bytes, i + 1,
                    Mul32(Xor32(h, U32(0, bytes[i])), U32(256, 403)))  \* 0x01000193

RECURSIVE FlattenBytes(_)
FlattenBytes(data) ==
    IF data = <<>> THEN <<>> ELSE BytesOf(Head(data)) \o FlattenBytes(Tail(data))

fnv1a_32(data) == fnv1a_loop(FlattenBytes(data), 1, U32(33052, 40389))  \* 0x811c9dc5

(***************************************************************************)
(* Bounds of the model and the inputs the calls are drawn from.            *)
(***************************************************************************)
MaxCalls == 2
MaxClears == 2

Threads == {"t1", "t2"}
SeqThreads == {"t1"}

KernelIds == {3, 13}
SpecDataSet == {<<U32(0, 1)>>, <<U32(0, 1), U32(0, 2)>>}

Opt(img, p, s, a, i8s, i8a) ==
    [use_image_storage |-> img, use_fp16_packed |-> p, use_fp16_storage |-> s,
     use_fp16_arithmetic |-> a, use_int8_storage |-> i8s, use_int8_arithmetic |-> i8a]

AllOpts ==
    [use_image_storage : BOOLEAN, use_fp16_packed : BOOLEAN, use_fp16_storage : BOOLEAN,
     use_fp16_arithmetic : BOOLEAN, use_int8_storage : BOOLEAN, use_int8_arithmetic : BOOLEAN]

AllDevices ==
    [bug_layout_binding_id_alias : BOOLEAN, support_fp16_packed : BOOLEAN,
     support_fp16_storage : BOOLEAN, support_fp16_arithmetic : BOOLEAN,
     support_VK_KHR_descriptor_update_template : BOOLEAN]

MainDevices ==
    {d \in AllDevices :
        /\ d.support_fp16_packed /\ d.support_fp16_storage /\ d.support_fp16_arithmetic
        /\ d.bug_layout_binding_id_alias = ~d.support_VK_KHR_descriptor_update_template}

\* <<device, NCNN_VULKAN_ONLINE_SPIRV>>
MainConfigs ==
    {<<d, FALSE>> : d \in MainDevices}
      \cup {<<d, TRUE>> : d \in {e \in MainDevices : ~e.bug_layout_binding_id_alias}}

VARIABLES
    vkdev_info,        \* vkdev->info: the capability flags of the device
    online_spirv,      \* whether the build defines NCNN_VULKAN_ONLINE_SPIRV
    cache_digests,     \* std::vector<pipeline_cache_digest>
    cache_artifacts,   \* std::vector<pipeline_cache_artifact>
    dev_log,           \* every create/destroy primitive invoked on the device, in order
    pc,                \* position of each caller inside get_pipeline
    req,               \* arguments of each caller's current call
    out,               \* return value and out-parameters of each caller
    local,             \* locals of each caller's current call
    pre,               \* the store as it was when each caller's current call began
    built,             \* history: the (key, artifact) pairs the cached path has built
    calls,             \* number of get_pipeline calls begun
    clears             \* number of clear() calls

vars == <<vkdev_info, online_spirv, cache_digests, cache_artifacts, dev_log, pc, req, out, local,
          pre, built, calls, clears>>

\* what no operation changes: the device and the build configuration
config == <<vkdev_info, online_spirv>>

BoolBit(b) == IF b THEN 1 ELSE 0

(***************************************************************************)
(* pipeline_cache_digest: the key of a cached pipeline.                    *)
(***************************************************************************)
\* pipeline_cache_digest that shifts both int8 flags into the same bit
pipeline_cache_digest_shared_bit(shader_type_index, opt, specializations, lsx, lsy, lsz) ==
    [shader_type_index |-> shader_type_index,
     opt_local_size_bits |->
        << BoolBit(opt.use_image_storage) * 128
             + BoolBit(opt.use_fp16_packed) * 64
             + BoolBit(opt.use_fp16_storage) * 32
             + BoolBit(opt.use_fp16_arithmetic) * 16
             + BoolBit(opt.use_int8_storage \/ opt.use_int8_arithmetic) * 8,
           lsx, lsy, lsz >>,
     specializations_murmur3 |-> murmur3_32(specializations),
     specializations_fnv1a |-> fnv1a_32(specializations)]

\* pipeline_cache_digest that leaves use_fp16_arithmetic out of the flag byte
pipeline_cache_digest_no_arithmetic(shader_type_index, opt, specializations, lsx, lsy, lsz) ==
    [shader_type_index |-> shader_type_index,
     opt_local_size_bits |->
        << BoolBit(opt.use_image_storage) * 128
             + BoolBit(opt.use_fp16_packed) * 64
             + BoolBit(opt.use_fp16_storage) * 32
             + BoolBit(opt.use_int8_storage) * 8
             + BoolBit(opt.use_int8_arithmetic) * 4,
           lsx, lsy, lsz >>,
     specializations_murmur3 |-> murmur3_32(specializations),
     specializations_fnv1a |-> fnv1a_32(specializations)]

pipeline_cache_digest(shader_type_index, opt, specializations, lsx, lsy, lsz) ==
    [shader_type_index |-> shader_type_index,
     opt_local_size_bits |->
        << BoolBit(opt.use_image_storage) * 128
             + BoolBit(opt.use_fp16_packed) * 64
             + BoolBit(opt.use_fp16_storage) * 32
             + BoolBit(opt.use_fp16_arithmetic) * 16
             + BoolBit(opt.use_int8_storage) * 8
             + BoolBit(opt.use_int8_arithmetic) * 4,
           lsx, lsy, lsz >>,
     specializations_murmur3 |-> murmur3_32(specializations),
     specializations_fnv1a |-> fnv1a_32(specializations)]

\* operator== of pipeline_cache_digest: every field equal
DigestEq(a, b) ==
    /\ a.shader_type_index = b.shader_type_index
    /\ a.opt_local_size_bits = b.opt_local_size_bits
    /\ a.specializations_murmur3 = b.specializations_murmur3
    /\ a.specializations_fnv1a = b.specializations_fnv1a

(***************************************************************************)
(* The device: create and destroy primitives.  A handle is a positive      *)
(* number, fresh for every successful create; 0 is the null handle.        *)
(***************************************************************************)
NextHandle(log) ==
    1 + Cardinality({i \in 1..Len(log) : log[i].op = "create" /\ log[i].h # 0})

Create(log, t, kind, fails) ==
    IF fails
    THEN [log |-> Append(log, [op |-> "create", kind |-> kind, h |-> 0, by |-> t]),
          h |-> 0, ret |-> -1]
    ELSE [log |-> Append(log, [op |-> "create", kind |-> kind, h |-> NextHandle(log), by |-> t]),
          h |-> NextHandle(log), ret |-> 0]

Destroy(log, t, kind, h) ==
    Append(log, [op |-> "destroy", kind |-> kind, h |-> h, by |-> t])

Skipped(log) == [log |-> log, h |-> 0, ret |-> -1]

\* the static table from a shader variant index to its signature
get_shader_info(shader_type_index) ==
    [specialization_count |-> IF shader_type_index < 13 THEN 1 ELSE 2,
     binding_count |-> 1 + (shader_type_index % 3),
     push_constant_count |-> shader_type_index % 2]

\* reflection of the bytecode compile_spirv_module produces for a kernel
compiled_shader_info(shader_type_index, opt) ==
    [specialization_count |-> IF shader_type_index < 13 THEN 1 ELSE 2,
     binding_count |-> 1 + (shader_type_index % 3) + BoolBit(opt.use_image_storage),
     push_constant_count |-> shader_type_index % 2]

\* reflection of raw bytecode
resolve_shader_info(spv) ==
    [specialization_count |-> IF spv = "spv_a" THEN 1 ELSE 2,
     binding_count |-> 2,
     push_constant_count |-> 0]

NoShaderInfo == [specialization_count |-> 0, binding_count |-> 0, push_constant_count |-> 0]

(***************************************************************************)
(* create_shader_module: the variant decision table.                       *)
(***************************************************************************)
\* the table with the image fp16-packed rule tested before the image fp16-storage rule
select_variant_packed_first(shader_type_index, opt, info) ==
    IF ~info.bug_layout_binding_id_alias /\ opt.use_image_storage
         /\ info.support_fp16_storage /\ opt.use_fp16_storage
         /\ info.support_fp16_arithmetic /\ opt.use_fp16_arithmetic
    THEN shader_type_index + 9
    ELSE IF ~info.bug_layout_binding_id_alias /\ opt.use_image_storage
         /\ info.support_fp16_packed /\ opt.use_fp16_packed
         /\ info.support_fp16_arithmetic /\ opt.use_fp16_arithmetic
    THEN shader_type_index + 7
    ELSE IF ~info.bug_layout_binding_id_alias /\ opt.use_image_storage
         /\ info.support_fp16_packed /\ opt.use_fp16_packed
    THEN shader_type_index + 6
    ELSE IF ~info.bug_layout_binding_id_alias /\ opt.use_image_storage
         /\ info.support_fp16_storage /\ opt.use_fp16_storage
    THEN shader_type_index + 8
    ELSE IF ~info.bug_layout_binding_id_alias /\ opt.use_image_storage
    THEN shader_type_index + 5
    ELSE IF info.support_fp16_storage /\ opt.use_fp16_storage
         /\ info.support_fp16_arithmetic /\ opt.use_fp16_arithmetic
    THEN shader_type_index + 4
    ELSE IF info.support_fp16_packed /\ opt.use_fp16_packed
         /\ info.support_fp16_arithmetic /\ opt.use_fp16_arithmetic
    THEN shader_type_index + 2
    ELSE IF info.support_fp16_storage /\ opt.use_fp16_storage
    THEN shader_type_index + 3
    ELSE IF info.support_fp16_packed /\ opt.use_fp16_packed
    THEN shader_type_index + 1
    ELSE shader_type_index

\* the table with the erratum test missing from the plain image rule
select_variant_image_on_erratum(shader_type_index, opt, info) ==
    IF ~info.bug_layout_binding_id_alias /\ opt.use_image_storage
         /\ info.support_fp16_storage /\ opt.use_fp16_storage
         /\ info.support_fp16_arithmetic /\ opt.use_fp16_arithmetic
    THEN shader_type_index + 9
    ELSE IF ~info.bug_layout_binding_id_alias /\ opt.use_image_storage
         /\ info.support_fp16_packed /\ opt.use_fp16_packed
         /\ info.support_fp16_arithmetic /\ opt.use_fp16_arithmetic
    THEN shader_type_index + 7
    ELSE IF ~info.bug_layout_binding_id_alias /\ opt.use_image_storage
         /\ info.support_fp16_storage /\ opt.use_fp16_storage
    THEN shader_type_index + 8
    ELSE IF ~info.bug_layout_binding_id_alias /\ opt.use_image_storage
         /\ info.support_fp16_packed /\ opt.use_fp16_packed
    THEN shader_type_index + 6
    ELSE IF opt.use_image_storage
    THEN shader_type_index + 5
    ELSE IF info.support_fp16_storage /\ opt.use_fp16_storage
         /\ info.support_fp16_arithmetic /\ opt.use_fp16_arithmetic
    THEN shader_type_index + 4
    ELSE IF info.support_fp16_packed /\ opt.use_fp16_packed
         /\ info.support_fp16_arithmetic /\ opt.use_fp16_arithmetic
    THEN shader_type_index + 2
    ELSE IF info.support_fp16_storage /\ opt.use_fp16_storage
    THEN shader_type_index + 3
    ELSE IF info.support_fp16_packed /\ opt.use_fp16_packed
    THEN shader_type_index + 1
    ELSE shader_type_index

select_variant(shader_type_index, opt, info) ==
    IF ~info.bug_layout_binding_id_alias /\ opt.use_image_storage
         /\ info.support_fp16_storage /\ opt.use_fp16_storage
         /\ info.support_fp16_arithmetic /\ opt.use_fp16_arithmetic
    THEN shader_type_index + 9
    ELSE IF ~info.bug_layout_binding_id_alias /\ opt.use_image_storage
         /\ info.support_fp16_packed /\ opt.use_fp16_packed
         /\ info.support_fp16_arithmetic /\ opt.use_fp16_arithmetic
    THEN shader_type_index + 7
    ELSE IF ~info.bug_layout_binding_id_alias /\ opt.use_image_storage
         /\ info.support_fp16_storage /\ opt.use_fp16_storage
    THEN shader_type_index + 8
    ELSE IF ~info.bug_layout_binding_id_alias /\ opt.use_image_storage
         /\ info.support_fp16_packed /\ opt.use_fp16_packed
    THEN shader_type_index + 6
    ELSE IF ~info.bug_layout_binding_id_alias /\ opt.use_image_storage
    THEN shader_type_index + 5
    ELSE IF info.support_fp16_storage /\ opt.use_fp16_storage
         /\ info.support_fp16_arithmetic /\ opt.use_fp16_arithmetic
    THEN shader_type_index + 4
    ELSE IF info.support_fp16_packed /\ opt.use_fp16_packed
         /\ info.support_fp16_arithmetic /\ opt.use_fp16_arithmetic
    THEN shader_type_index + 2
    ELSE IF info.support_fp16_storage /\ opt.use_fp16_storage
    THEN shader_type_index + 3
    ELSE IF info.support_fp16_packed /\ opt.use_fp16_packed
    THEN shader_type_index + 1
    ELSE shader_type_index

\* create_shader_module that does not look at the module it obtained
create_shader_module_unchecked(log, t, shader_type_index, opt, info, online, si, fail) ==
    LET idx == IF online THEN shader_type_index
               ELSE select_variant(shader_type_index, opt, info)
        c   == Create(log, t, "shader_module", fail = "shader_module")
    IN  IF online /\ fail \in {"compile_spirv", "resolve"}
        THEN [ret |-> -1, log |-> log, shader_module |-> 0, si |-> si,
              variant |-> idx, failed_at |-> fail]
        ELSE [ret |-> 0, log |-> c.log, shader_module |-> c.h,
              si |-> IF online THEN compiled_shader_info(idx, opt)
                     ELSE get_shader_info(idx),
              variant |-> idx, failed_at |-> "none"]

\* result: ret, the device log, the module handle, the value of si on return,
\* the variant index that was resolved and the step that failed.
\* online: compile_spirv_module, resolve_shader_info, compile_shader_module;
\* otherwise: the variant table, get_shader_info, create_shader_module.
create_shader_module(log, t, shader_type_index, opt, info, online, si, fail) ==
    LET idx == IF online THEN shader_type_index
               ELSE select_variant(shader_type_index, opt, info)
        c   == Create(log, t, "shader_module", fail = "shader_module")
    IN  IF online /\ fail \in {"compile_spirv", "resolve"}
        THEN [ret |-> -1, log |-> log, shader_module |-> 0, si |-> si,
              variant |-> idx, failed_at |-> fail]
        ELSE [ret |-> c.ret, log |-> c.log, shader_module |-> c.h,
              si |-> IF online THEN compiled_shader_info(idx, opt)
                     ELSE get_shader_info(idx),
              variant |-> idx,
              failed_at |-> IF c.ret # 0 THEN "shader_module" ELSE "none"]

(***************************************************************************)
(* new_pipeline: the four create steps and the unwind at ERROR.            *)
(***************************************************************************)
\* unwind that forgets the pipeline layout
unwind_leak(log, t, info, descriptorset_layout, pipeline_layout, pipeline, descriptor_update_template) ==
    LET e1 == IF info.support_VK_KHR_descriptor_update_template
                  /\ descriptor_update_template # 0
              THEN Destroy(log, t, "descriptor_update_template", descriptor_update_template)
              ELSE log
        e2 == IF pipeline # 0 THEN Destroy(e1, t, "pipeline", pipeline) ELSE e1
    IN  IF descriptorset_layout # 0
        THEN Destroy(e2, t, "descriptorset_layout", descriptorset_layout) ELSE e2

\* unwind that destroys in the order of creation
unwind_oldest_first(log, t, info, descriptorset_layout, pipeline_layout, pipeline, descriptor_update_template) ==
    LET e1 == IF descriptorset_layout # 0
              THEN Destroy(log, t, "descriptorset_layout", descriptorset_layout) ELSE log
        e2 == IF pipeline_layout # 0
              THEN Destroy(e1, t, "pipeline_layout", pipeline_layout) ELSE e1
        e3 == IF pipeline # 0 THEN Destroy(e2, t, "pipeline", pipeline) ELSE e2
    IN  IF info.support_VK_KHR_descriptor_update_template /\ descriptor_update_template # 0
        THEN Destroy(e3, t, "descriptor_update_template", descriptor_update_template)
        ELSE e3

\* unwind that forgets the pipeline
unwind_keeps_pipeline(log, t, info, descriptorset_layout, pipeline_layout, pipeline, descriptor_update_template) ==
    LET e1 == IF info.support_VK_KHR_descriptor_update_template
                  /\ descriptor_update_template # 0
              THEN Destroy(log, t, "descriptor_update_template", descriptor_update_template)
              ELSE log
        e3 == IF pipeline_layout # 0
              THEN Destroy(e1, t, "pipeline_layout", pipeline_layout) ELSE e1
    IN  IF descriptorset_layout # 0
        THEN Destroy(e3, t, "descriptorset_layout", descriptorset_layout) ELSE e3

\* the ERROR label: destroy what was created, newest first
unwind(log, t, info, descriptorset_layout, pipeline_layout, pipeline, descriptor_update_template) ==
    LET e1 == IF info.support_VK_KHR_descriptor_update_template
                  /\ descriptor_update_template # 0
              THEN Destroy(log, t, "descriptor_update_template", descriptor_update_template)
              ELSE log
        e2 == IF pipeline # 0 THEN Destroy(e1, t, "pipeline", pipeline) ELSE e1
        e3 == IF pipeline_layout # 0
              THEN Destroy(e2, t, "pipeline_layout", pipeline_layout) ELSE e2
    IN  IF descriptorset_layout # 0
        THEN Destroy(e3, t, "descriptorset_layout", descriptorset_layout) ELSE e3

\* new_pipeline without the comparison of the specialization counts
new_pipeline_unchecked(log, t, shader_module, shader_info, specializations, info, fail) ==
    LET dut_supported == info.support_VK_KHR_descriptor_update_template
        mismatch == FALSE
        c1 == IF mismatch THEN Skipped(log)
              ELSE Create(log, t, "descriptorset_layout", fail = "descriptorset_layout")
        c2 == IF c1.ret # 0 THEN Skipped(c1.log)
              ELSE Create(c1.log, t, "pipeline_layout", fail = "pipeline_layout")
        c3 == IF c2.ret # 0 THEN Skipped(c2.log)
              ELSE Create(c2.log, t, "pipeline", fail = "pipeline")
        c4 == IF c3.ret # 0 THEN Skipped(c3.log)
              ELSE IF dut_supported
                   THEN Create(c3.log, t, "descriptor_update_template",
                               fail = "descriptor_update_template")
                   ELSE [log |-> c3.log, h |-> 0, ret |-> 0]
        e4 == unwind(c4.log, t, info, c1.h, c2.h, c3.h, c4.h)
        at == IF mismatch THEN "specialization_count"
              ELSE IF c1.ret # 0 THEN "descriptorset_layout"
              ELSE IF c2.ret # 0 THEN "pipeline_layout"
              ELSE IF c3.ret # 0 THEN "pipeline"
              ELSE "descriptor_update_template"
    IN  IF c4.ret = 0
        THEN [ret |-> 0, log |-> c4.log, descriptorset_layout |-> c1.h,
              pipeline_layout |-> c2.h, pipeline |-> c3.h,
              descriptor_update_template |-> c4.h, failed_at |-> "none"]
        ELSE [ret |-> -1, log |-> e4, descriptorset_layout |-> 0,
              pipeline_layout |-> 0, pipeline |-> 0, descriptor_update_template |-> 0,
              failed_at |-> at]

new_pipeline(log, t, shader_module, shader_info, specializations, info, fail) ==
    LET dut_supported == info.support_VK_KHR_descriptor_update_template
        mismatch == Len(specializations) # shader_info.specialization_count
        c1 == IF mismatch THEN Skipped(log)
              ELSE Create(log, t, "descriptorset_layout", fail = "descriptorset_layout")
        c2 == IF c1.ret # 0 THEN Skipped(c1.log)
              ELSE Create(c1.log, t, "pipeline_layout", fail = "pipeline_layout")
        c3 == IF c2.ret # 0 THEN Skipped(c2.log)
              ELSE Create(c2.log, t, "pipeline", fail = "pipeline")
        c4 == IF c3.ret # 0 THEN Skipped(c3.log)
              ELSE IF dut_supported
                   THEN Create(c3.log, t, "descriptor_update_template",
                               fail = "descriptor_update_template")
                   ELSE [log |-> c3.log, h |-> 0, ret |-> 0]
        e4 == unwind(c4.log, t, info, c1.h, c2.h, c3.h, c4.h)
        at == IF mismatch THEN "specialization_count"
              ELSE IF c1.ret # 0 THEN "descriptorset_layout"
              ELSE IF c2.ret # 0 THEN "pipeline_layout"
              ELSE IF c3.ret # 0 THEN "pipeline"
              ELSE "descriptor_update_template"
    IN  IF c4.ret = 0
        THEN [ret |-> 0, log |-> c4.log, descriptorset_layout |-> c1.h,
              pipeline_layout |-> c2.h, pipeline |-> c3.h,
              descriptor_update_template |-> c4.h, failed_at |-> "none"]
        ELSE [ret |-> -1, log |-> e4, descriptorset_layout |-> 0,
              pipeline_layout |-> 0, pipeline |-> 0, descriptor_update_template |-> 0,
              failed_at |-> at]

(***************************************************************************)
(* Requests, results and per-call locals.                                  *)
(***************************************************************************)
NoRet == 1    \* the call has not returned yet

CachedRequest(id, opt, specializations, ls) ==
    [path |-> "cached", shader_type_index |-> id, opt |-> opt,
     specializations |-> specializations, local_size |-> ls, spv |-> "none"]

SpvRequest(spv, specializations, ls) ==
    [path |-> "spv", shader_type_index |-> 0,
     opt |-> Opt(FALSE, FALSE, FALSE, FALSE, FALSE, FALSE),
     specializations |-> specializations, local_size |-> ls, spv |-> spv]

MainRequests ==
    {CachedRequest(3, Opt(TRUE, FALSE, TRUE, TRUE, FALSE, FALSE), sp, <<8, 8, 1>>) :
        sp \in SpecDataSet}
      \cup {CachedRequest(3, Opt(FALSE, FALSE, FALSE, FALSE, FALSE, FALSE),
                          <<U32(0, 1)>>, <<4, 4, 1>>)}

VariantRequests ==
    {CachedRequest(id, o, <<U32(0, 1)>>, <<8, 8, 1>>) : id \in KernelIds, o \in AllOpts}

SpvRequests ==
    {SpvRequest("spv_a", sp, <<8, 8, 1>>) : sp \in SpecDataSet}

NoRequest == SpvRequest("none", <<>>, <<0, 0, 0>>)

KeyOf(r) ==
    pipeline_cache_digest(r.shader_type_index, r.opt, r.specializations,
                          r.local_size[1], r.local_size[2], r.local_size[3])

NullArtifact ==
    [shader_module |-> 0, descriptorset_layout |-> 0, pipeline_layout |-> 0,
     pipeline |-> 0, descriptor_update_template |-> 0, shader_info |-> NoShaderInfo]

\* the caller's out-parameters before the call writes them
NullOut ==
    [ret |-> NoRet, shader_module |-> 0, descriptorset_layout |-> 0, pipeline_layout |-> 0,
     pipeline |-> 0, descriptor_update_template |-> 0, shader_info |-> NoShaderInfo]

ArtifactOf(o) ==
    [shader_module |-> o.shader_module, descriptorset_layout |-> o.descriptorset_layout,
     pipeline_layout |-> o.pipeline_layout, pipeline |-> o.pipeline,
     descriptor_update_template |-> o.descriptor_update_template,
     shader_info |-> o.shader_info]

Returned(a, ret) ==
    [ret |-> ret, shader_module |-> a.shader_module,
     descriptorset_layout |-> a.descriptorset_layout, pipeline_layout |-> a.pipeline_layout,
     pipeline |-> a.pipeline, descriptor_update_template |-> a.descriptor_update_template,
     shader_info |-> a.shader_info]

NoKey == pipeline_cache_digest(0, Opt(FALSE, FALSE, FALSE, FALSE, FALSE, FALSE), <<>>, 0, 0, 0)

\* fail: the step of the current call that failed, "none" while none has
NoLocal == [key |-> NoKey, variant |-> -1, fail |-> "none", end |-> 0]

\* the step of a call that the environment makes fail
BuildFailPoints ==
    {"none", "shader_module", "descriptorset_layout", "pipeline_layout", "pipeline",
     "descriptor_update_template"}

CachedFailPoints(online) ==
    IF online THEN BuildFailPoints \cup {"compile_spirv", "resolve"} ELSE BuildFailPoints

SpvFailPoints == BuildFailPoints \cup {"resolve"}

InFlight(t) == pc[t] \notin {"idle", "done"}

\* what a caller remembers of the moment its call began
Snapshot(t) ==
    [digests |-> cache_digests, artifacts |-> cache_artifacts, mark |-> Len(dev_log),
     clears |-> clears, last_req |-> req[t]]

NoSnapshot ==
    [digests |-> <<>>, artifacts |-> <<>>, mark |-> 0, clears |-> 0,
     last_req |-> NoRequest]

(***************************************************************************)
(* Init: a freshly constructed PipelineCache on some device.               *)
(***************************************************************************)
InitCache ==
    /\ cache_digests = <<>>
    /\ cache_artifacts = <<>>
    /\ dev_log = <<>>
    /\ pc = [t \in Threads |-> "idle"]
    /\ req = [t \in Threads |-> NoRequest]
    /\ out = [t \in Threads |-> NullOut]
    /\ local = [t \in Threads |-> NoLocal]
    /\ pre = [t \in Threads |-> NoSnapshot]
    /\ built = {}
    /\ calls = 0
    /\ clears = 0

Init ==
    /\ \E c \in MainConfigs : vkdev_info = c[1] /\ online_spirv = c[2]
    /\ InitCache

\* the state at the entry of one call (caller t1) on a fresh cache, for every
\* device and every combination of the option flags, in the build that holds
\* the variant table
InitVariant ==
    /\ vkdev_info \in AllDevices
    /\ online_spirv = FALSE
    /\ cache_digests = <<>>
    /\ cache_artifacts = <<>>
    /\ dev_log = <<>>
    /\ pc = [t \in Threads |-> IF t \in SeqThreads THEN "find" ELSE "idle"]
    /\ \E r \in VariantRequests :
          req = [t \in Threads |-> IF t \in SeqThreads THEN r ELSE NoRequest]
    /\ out = [t \in Threads |-> NullOut]
    /\ local = [t \in Threads |-> NoLocal]
    /\ pre = [t \in Threads |-> NoSnapshot]
    /\ built = {}
    /\ calls = 1
    /\ clears = 0

\* the six flags of Option the digest encodes
OptFlags ==
    {"use_image_storage", "use_fp16_packed", "use_fp16_storage", "use_fp16_arithmetic",
     "use_int8_storage", "use_int8_arithmetic"}

\* values of one local_size dimension
LocalSizes == {1, 4, 8}

\* first requests of the two-call runs: every combination of the option flags
KeyRequests ==
    {CachedRequest(3, o, <<U32(0, 1)>>, <<8, 8, 1>>) : o \in AllOpts}

\* second requests: the same request again, one with another kernel, and the
\* requests that differ from r in one option flag or one local_size dimension
FollowUps(r) ==
    {r} \cup {[r EXCEPT !.shader_type_index = id] : id \in KernelIds}
        \cup {[r EXCEPT !.opt[f] = ~@] : f \in OptFlags}
        \cup {[r EXCEPT !.local_size[d] = v] : d \in 1..3, v \in LocalSizes}

FirstCaller == CHOOSE t \in SeqThreads : TRUE

SecondCaller == CHOOSE t \in Threads \ SeqThreads : TRUE

\* a fresh cache on the device without the erratum, in the build that holds
\* the variant table; the first caller is at the entry of its call and the
\* second caller holds the request of the call that follows
InitKey ==
    /\ vkdev_info \in {d \in MainDevices : ~d.bug_layout_binding_id_alias}
    /\ online_spirv = FALSE
    /\ cache_digests = <<>>
    /\ cache_artifacts = <<>>
    /\ dev_log = <<>>
    /\ pc = [t \in Threads |-> IF t = FirstCaller THEN "find" ELSE "idle"]
    /\ \E r1 \in KeyRequests : \E r2 \in FollowUps(r1) :
          req = [t \in Threads |-> IF t = FirstCaller THEN r1 ELSE r2]
    /\ out = [t \in Threads |-> NullOut]
    /\ local = [t \in Threads |-> NoLocal]
    /\ pre = [t \in Threads |-> NoSnapshot]
    /\ built = {}
    /\ calls = 1
    /\ clears = 0

(***************************************************************************)
(* get_pipeline(int shader_type_index, ...): the cached entry point.       *)
(***************************************************************************)
\* entry: the arguments are bound, nothing of the cache has been read yet
Call(t, requests, limit) ==
    /\ ~InFlight(t)
    /\ calls < limit
    /\ \E r \in requests :
          /\ req' = [req EXCEPT ![t] = r]
          /\ local' = [local EXCEPT ![t] = NoLocal]
    /\ pc' = [pc EXCEPT ![t] = "find"]
    /\ out' = [out EXCEPT ![t] = NullOut]
    /\ pre' = [pre EXCEPT ![t] = Snapshot(t)]
    /\ calls' = calls + 1
    /\ UNCHANGED <<config, cache_digests, cache_artifacts, dev_log, built, clears>>

\* FindIndex with a comparison that never succeeds
FindIndex_never(digests, key) == 0

\* FindIndex whose scan stops one element before the end
FindIndex_short(digests, key) ==
    IF \E i \in 1..(Len(digests) - 1) : DigestEq(digests[i], key)
    THEN CHOOSE i \in 1..(Len(digests) - 1) : DigestEq(digests[i], key)
    ELSE 0

\* index of the first digest equal to key, 0 when there is none
FindIndex(digests, key) ==
    IF \E i \in 1..Len(digests) : DigestEq(digests[i], key)
    THEN CHOOSE i \in 1..Len(digests) :
            /\ DigestEq(digests[i], key)
            /\ \A j \in 1..(i - 1) : ~DigestEq(digests[j], key)
    ELSE 0

\* what cache_artifacts[i] yields: the element, or, when i is past the end
\* (a digest was pushed and its artifact not yet), whatever memory holds
ReadArtifact(artifacts, i) ==
    IF i <= Len(artifacts) THEN {artifacts[i]}
    ELSE {NullArtifact} \cup {artifacts[j] : j \in 1..Len(artifacts)}

\* the "find cache" loop
Find(t) ==
    /\ pc[t] = "find"
    /\ LET key == KeyOf(req[t])
           i   == FindIndex(cache_digests, key)
       IN  /\ local' = [local EXCEPT ![t].key = key]
           /\ IF i # 0
              THEN /\ \E cc \in ReadArtifact(cache_artifacts, i) :
                         out' = [out EXCEPT ![t] = Returned(cc, 0)]
                   /\ pc' = [pc EXCEPT ![t] = "done"]
              ELSE /\ out' = out
                   /\ pc' = [pc EXCEPT ![t] = "build"]
    /\ UNCHANGED <<config, cache_digests, cache_artifacts, dev_log, req, pre,
                   built, calls, clears>>

\* "create new pipeline": create_shader_module, new_pipeline and the
\* destruction of the module when new_pipeline fails
BuildSteps(t) ==
    /\ pc[t] = "build"
    /\ \E fail \in CachedFailPoints(online_spirv) :
          LET r   == req[t]
              csm == create_shader_module(dev_log, t, r.shader_type_index, r.opt,
                                          vkdev_info, online_spirv,
                                          out[t].shader_info, fail)
              np  == new_pipeline(csm.log, t, csm.shader_module, csm.si,
                                  r.specializations, vkdev_info, fail)
          IN  /\ local' = [local EXCEPT ![t].variant = csm.variant,
                                         ![t].fail = IF csm.ret # 0 THEN csm.failed_at
                                                     ELSE np.failed_at]
              /\ IF csm.ret # 0
                 THEN /\ dev_log' = csm.log
                      /\ built' = built
                      /\ out' = [out EXCEPT ![t].ret = -1, ![t].shader_info = csm.si]
                      /\ pc' = [pc EXCEPT ![t] = "done"]
                 ELSE IF np.ret # 0
                 THEN /\ dev_log' = Destroy(np.log, t, "shader_module", csm.shader_module)
                      /\ built' = built
                      /\ out' = [out EXCEPT ![t].ret = -1, ![t].shader_info = csm.si]
                      /\ pc' = [pc EXCEPT ![t] = "done"]
                 ELSE /\ dev_log' = np.log
                      /\ built' = built \cup
                            {[key |-> local[t].key, variant |-> csm.variant,
                              artifact |-> [shader_module |-> csm.shader_module,
                                            descriptorset_layout |-> np.descriptorset_layout,
                                            pipeline_layout |-> np.pipeline_layout,
                                            pipeline |-> np.pipeline,
                                            descriptor_update_template |->
                                                np.descriptor_update_template,
                                            shader_info |-> csm.si]]}
                      /\ out' = [out EXCEPT ![t] =
                                   [ret |-> NoRet,
                                    shader_module |-> csm.shader_module,
                                    descriptorset_layout |-> np.descriptorset_layout,
                                    pipeline_layout |-> np.pipeline_layout,
                                    pipeline |-> np.pipeline,
                                    descriptor_update_template |-> np.descriptor_update_template,
                                    shader_info |-> csm.si]]
                      /\ pc' = [pc EXCEPT ![t] = "push_digest"]

\* Build that records the digest although the build failed
Build_keeps_key(t) ==
    /\ BuildSteps(t)
    /\ cache_digests' = IF out'[t].ret = -1 THEN Append(cache_digests, local[t].key)
                        ELSE cache_digests
    /\ UNCHANGED <<config, cache_artifacts, req, pre, calls, clears>>

Build(t) ==
    /\ BuildSteps(t)
    /\ UNCHANGED <<config, cache_digests, cache_artifacts, req, pre, calls, clears>>

\* std::vector::push_back without a lock: the end of the vector is read,
\* then the element is written there and the end is advanced
WriteAt_front(s, i, v) == <<v>> \o s

\* WriteAt that keeps only the newest element
WriteAt_single(s, i, v) == <<v>>

WriteAt(s, i, v) == [j \in 1..i |-> IF j = i THEN v ELSE s[j]]

PushDigestRead(t) ==
    /\ pc[t] = "push_digest"
    /\ local' = [local EXCEPT ![t].end = Len(cache_digests)]
    /\ pc' = [pc EXCEPT ![t] = "push_digest_write"]
    /\ UNCHANGED <<config, cache_digests, cache_artifacts, dev_log, req, out, pre,
                   built, calls, clears>>

PushDigestWrite(t) ==
    /\ pc[t] = "push_digest_write"
    /\ cache_digests' = WriteAt(cache_digests, local[t].end + 1, local[t].key)
    /\ pc' = [pc EXCEPT ![t] = "push_artifact"]
    /\ UNCHANGED <<config, cache_artifacts, dev_log, req, out, local, pre,
                   built, calls, clears>>

PushArtifactRead(t) ==
    /\ pc[t] = "push_artifact"
    /\ local' = [local EXCEPT ![t].end = Len(cache_artifacts)]
    /\ pc' = [pc EXCEPT ![t] = "push_artifact_write"]
    /\ UNCHANGED <<config, cache_digests, cache_artifacts, dev_log, req, out, pre,
                   built, calls, clears>>

PushArtifactWrite(t) ==
    /\ pc[t] = "push_artifact_write"
    /\ cache_artifacts' = WriteAt(cache_artifacts, local[t].end + 1, ArtifactOf(out[t]))
    /\ out' = [out EXCEPT ![t].ret = 0]
    /\ pc' = [pc EXCEPT ![t] = "done"]
    /\ UNCHANGED <<config, cache_digests, dev_log, req, local, pre, built, calls,
                   clears>>

(***************************************************************************)
(* get_pipeline(const uint32_t* spv_data, ...): the bytecode entry point.  *)
(***************************************************************************)
SpvSteps(t, requests, limit) ==
    /\ ~InFlight(t)
    /\ calls < limit
    /\ \E r \in requests, fail \in SpvFailPoints :
          LET si  == resolve_shader_info(r.spv)
              c   == Create(dev_log, t, "shader_module", fail = "shader_module")
              np  == new_pipeline(c.log, t, c.h, si, r.specializations, vkdev_info, fail)
          IN  /\ req' = [req EXCEPT ![t] = r]
              /\ local' = [local EXCEPT ![t] =
                             [NoLocal EXCEPT !.fail = IF fail = "resolve" THEN "resolve"
                                                      ELSE IF c.ret # 0 THEN "shader_module"
                                                      ELSE np.failed_at]]
              /\ IF fail = "resolve"
                 THEN /\ dev_log' = dev_log
                      /\ out' = [out EXCEPT ![t] = [NullOut EXCEPT !.ret = -1]]
                 ELSE IF c.ret # 0
                 THEN /\ dev_log' = c.log
                      /\ out' = [out EXCEPT ![t] =
                                   [NullOut EXCEPT !.ret = -1, !.shader_info = si]]
                 ELSE IF np.ret # 0
                 THEN /\ dev_log' = Destroy(np.log, t, "shader_module", c.h)
                      /\ out' = [out EXCEPT ![t] =
                                   [NullOut EXCEPT !.ret = -1, !.shader_info = si]]
                 ELSE /\ dev_log' = np.log
                      /\ out' = [out EXCEPT ![t] =
                                   [ret |-> 0,
                                    shader_module |-> c.h,
                                    descriptorset_layout |-> np.descriptorset_layout,
                                    pipeline_layout |-> np.pipeline_layout,
                                    pipeline |-> np.pipeline,
                                    descriptor_update_template |-> np.descriptor_update_template,
                                    shader_info |-> si]]
    /\ pc' = [pc EXCEPT ![t] = "done"]
    /\ pre' = [pre EXCEPT ![t] = Snapshot(t)]
    /\ calls' = calls + 1

\* the bytecode entry point with "save to cache" carried out
GetPipelineSpv_saves(t, requests, limit) ==
    /\ SpvSteps(t, requests, limit)
    /\ cache_digests' = IF out'[t].ret = 0 THEN Append(cache_digests, KeyOf(req'[t]))
                        ELSE cache_digests
    /\ cache_artifacts' = IF out'[t].ret = 0
                          THEN Append(cache_artifacts, ArtifactOf(out'[t]))
                          ELSE cache_artifacts
    /\ UNCHANGED <<config, built, clears>>

GetPipelineSpv(t, requests, limit) ==
    /\ SpvSteps(t, requests, limit)
    /\ UNCHANGED <<config, cache_digests, cache_artifacts, built, clears>>

(***************************************************************************)
(* clear(): destroy what every artifact holds, then empty both vectors.    *)
(***************************************************************************)
\* ClearOne that forgets the shader module
ClearOne_no_module(log, cc, info) ==
    LET d1 == IF info.support_VK_KHR_descriptor_update_template
                  /\ cc.descriptor_update_template # 0
              THEN Destroy(log, "clear", "descriptor_update_template",
                           cc.descriptor_update_template)
              ELSE log
        d2 == IF cc.pipeline # 0 THEN Destroy(d1, "clear", "pipeline", cc.pipeline) ELSE d1
        d3 == IF cc.pipeline_layout # 0
              THEN Destroy(d2, "clear", "pipeline_layout", cc.pipeline_layout) ELSE d2
    IN  IF cc.descriptorset_layout # 0
        THEN Destroy(d3, "clear", "descriptorset_layout", cc.descriptorset_layout)
        ELSE d3

ClearOne(log, cc, info) ==
    LET d1 == IF info.support_VK_KHR_descriptor_update_template
                  /\ cc.descriptor_update_template # 0
              THEN Destroy(log, "clear", "descriptor_update_template",
                           cc.descriptor_update_template)
              ELSE log
        d2 == IF cc.pipeline # 0 THEN Destroy(d1, "clear", "pipeline", cc.pipeline) ELSE d1
        d3 == IF cc.pipeline_layout # 0
              THEN Destroy(d2, "clear", "pipeline_layout", cc.pipeline_layout) ELSE d2
        d4 == IF cc.descriptorset_layout # 0
              THEN Destroy(d3, "clear", "descriptorset_layout", cc.descriptorset_layout)
              ELSE d3
    IN  IF cc.shader_module # 0
        THEN Destroy(d4, "clear", "shader_module", cc.shader_module) ELSE d4

RECURSIVE ClearLoop(_, _, _, _)
ClearLoop(log, artifacts, i, info) ==
    IF i > Len(artifacts) THEN log
    ELSE ClearLoop(ClearOne(log, artifacts[i], info), artifacts, i + 1, info)

\* clear() that destroys the handles and keeps the vectors
clear_keeps_store ==
    /\ \A t \in Threads : ~InFlight(t)
    /\ clears < MaxClears
    /\ dev_log' = ClearLoop(dev_log, cache_artifacts, 1, vkdev_info)
    /\ clears' = clears + 1
    /\ UNCHANGED <<config, cache_digests, cache_artifacts, pc, req, out, local, pre,
                   built, calls>>

clear ==
    /\ \A t \in Threads : ~InFlight(t)
    /\ clears < MaxClears
    /\ dev_log' = ClearLoop(dev_log, cache_artifacts, 1, vkdev_info)
    /\ cache_digests' = <<>>
    /\ cache_artifacts' = <<>>
    /\ clears' = clears + 1
    /\ UNCHANGED <<config, pc, req, out, local, pre, built, calls>>

(***************************************************************************)
(* Specifications.  Spec: one caller at a time.  SpecConc: two callers     *)
(* whose calls interleave.  SpecVariant: one call on a fresh cache, for     *)
(* every combination of option flags and device capabilities.              *)
(***************************************************************************)
Next ==
    \/ \E t \in SeqThreads : Call(t, MainRequests, MaxCalls)
    \/ \E t \in SeqThreads : Find(t)
    \/ \E t \in SeqThreads : Build(t)
    \/ \E t \in SeqThreads : PushDigestRead(t)
    \/ \E t \in SeqThreads : PushDigestWrite(t)
    \/ \E t \in SeqThreads : PushArtifactRead(t)
    \/ \E t \in SeqThreads : PushArtifactWrite(t)
    \/ \E t \in SeqThreads : GetPipelineSpv(t, SpvRequests, MaxCalls)
    \/ clear

Spec == Init /\ [][Next]_vars

NextConc ==
    \/ \E t \in Threads : Call(t, MainRequests, MaxCalls)
    \/ \E t \in Threads : Find(t)
    \/ \E t \in Threads : Build(t)
    \/ \E t \in Threads : PushDigestRead(t)
    \/ \E t \in Threads : PushDigestWrite(t)
    \/ \E t \in Threads : PushArtifactRead(t)
    \/ \E t \in Threads : PushArtifactWrite(t)
    \/ \E t \in Threads : GetPipelineSpv(t, SpvRequests, MaxCalls)
    \/ clear

SpecConc == Init /\ [][NextConc]_vars

NextVariant ==
    \/ \E t \in SeqThreads : Find(t)
    \/ \E t \in SeqThreads : Build(t)
    \/ \E t \in SeqThreads : PushDigestRead(t)
    \/ \E t \in SeqThreads : PushDigestWrite(t)
    \/ \E t \in SeqThreads : PushArtifactRead(t)
    \/ \E t \in SeqThreads : PushArtifactWrite(t)

SpecVariant == InitVariant /\ [][NextVariant]_vars

\* the second call begins when the first has returned with its entry stored
SecondCall ==
    /\ pc[FirstCaller] = "done"
    /\ out[FirstCaller].ret = 0
    /\ Call(SecondCaller, {req[SecondCaller]}, Cardinality(Threads))

NextKey ==
    \/ SecondCall
    \/ \E t \in Threads : Find(t)
    \/ \E t \in Threads : Build(t)
    \/ \E t \in Threads : PushDigestRead(t)
    \/ \E t \in Threads : PushDigestWrite(t)
    \/ \E t \in Threads : PushArtifactRead(t)
    \/ \E t \in Threads : PushArtifactWrite(t)

SpecKey == InitKey /\ [][NextKey]_vars

\* one caller at a time, cached entry point and clear() only
NextCached ==
    \/ \E t \in SeqThreads : Call(t, MainRequests, MaxCalls)
    \/ \E t \in SeqThreads : Find(t)
    \/ \E t \in SeqThreads : Build(t)
    \/ \E t \in SeqThreads : PushDigestRead(t)
    \/ \E t \in SeqThreads : PushDigestWrite(t)
    \/ \E t \in SeqThreads : PushArtifactRead(t)
    \/ \E t \in SeqThreads : PushArtifactWrite(t)
    \/ clear

SpecCached == Init /\ [][NextCached]_vars

\* two callers whose calls interleave, cached entry point and clear() only
NextConcCached ==
    \/ \E t \in Threads : Call(t, MainRequests, MaxCalls)
    \/ \E t \in Threads : Find(t)
    \/ \E t \in Threads : Build(t)
    \/ \E t \in Threads : PushDigestRead(t)
    \/ \E t \in Threads : PushDigestWrite(t)
    \/ \E t \in Threads : PushArtifactRead(t)
    \/ \E t \in Threads : PushArtifactWrite(t)
    \/ clear

SpecConcCached == Init /\ [][NextConcCached]_vars

(***************************************************************************)
(* Observations on the device log, used to state the properties.           *)
(***************************************************************************)
\* positions of the log written by caller t after position mark
Since(t, mark) == {i \in (mark + 1)..Len(dev_log) : dev_log[i].by = t}

\* handles caller t created after position mark
CreatedSince(t, mark) ==
    {dev_log[i].h : i \in {j \in Since(t, mark) :
                              dev_log[j].op = "create" /\ dev_log[j].h # 0}}

\* how often handle h has been destroyed according to log
DestroyCount(log, h) ==
    Cardinality({i \in 1..Len(log) : log[i].op = "destroy" /\ log[i].h = h})

\* the non-null handles an artifact holds
HandlesOf(cc) ==
    {cc.shader_module, cc.descriptorset_layout, cc.pipeline_layout, cc.pipeline,
     cc.descriptor_update_template} \ {0}

\* caller t has returned from a call on the given path and clear() has not run since
ReturnedFrom(t, path) ==
    pc[t] = "done" /\ req[t].path = path /\ clears = pre[t].clears

\* the key of caller t's request was in the store when the call began
WasCached(t) ==
    \E i \in 1..Len(pre[t].digests) : pre[t].digests[i] = KeyOf(req[t])

(***************************************************************************)
(* Properties.                                                             *)
(***************************************************************************)

\* C1 (cache hit): a cached call whose key was in the store when the call
\* began returns 0 with the five handles and the signature of the first
\* matching entry, invokes no create primitive and leaves the store as it was.
CacheHitReturnsStored ==
    \A t \in Threads :
        (ReturnedFrom(t, "cached") /\ WasCached(t)) =>
            /\ \E i \in 1..Len(pre[t].digests) :
                  /\ pre[t].digests[i] = KeyOf(req[t])
                  /\ \A j \in 1..(i - 1) : pre[t].digests[j] # KeyOf(req[t])
                  /\ out[t] = Returned(pre[t].artifacts[i], 0)
            /\ \A i \in Since(t, pre[t].mark) : dev_log[i].op # "create"
            /\ cache_digests = pre[t].digests
            /\ cache_artifacts = pre[t].artifacts

CacheHitWitness ==
    \E t \in Threads :
        /\ ReturnedFrom(t, "cached") /\ WasCached(t)
        /\ out[t].ret = 0 /\ out[t].pipeline # 0 /\ out[t].shader_module # 0

\* C2 (cache miss, successful build): a cached call whose key was absent and
\* that returns 0 leaves the store one entry longer: the old entries in place,
\* followed by the request's key and a bundle holding exactly the handles and
\* the signature returned to the caller.
CacheMissAppends ==
    \A t \in Threads :
        (ReturnedFrom(t, "cached") /\ ~WasCached(t) /\ out[t].ret = 0) =>
            /\ cache_digests = Append(pre[t].digests, KeyOf(req[t]))
            /\ cache_artifacts = Append(pre[t].artifacts, ArtifactOf(out[t]))
            /\ Cardinality(HandlesOf(ArtifactOf(out[t]))) =
                  IF vkdev_info.support_VK_KHR_descriptor_update_template THEN 5 ELSE 4

CacheMissWitness ==
    \E t \in Threads :
        /\ ReturnedFrom(t, "cached") /\ ~WasCached(t) /\ out[t].ret = 0
        /\ Len(pre[t].digests) = 1 /\ Len(cache_digests) = 2

\* C3 (failed build): a cached call that returns failure leaves the key list
\* and the bundle list exactly as they were when the call began.
FailedBuildLeavesStore ==
    \A t \in Threads :
        (ReturnedFrom(t, "cached") /\ out[t].ret = -1) =>
            /\ cache_digests = pre[t].digests
            /\ cache_artifacts = pre[t].artifacts

FailedBuildWitness ==
    \E t \in Threads :
        /\ ReturnedFrom(t, "cached") /\ out[t].ret = -1
        /\ local[t].fail = "pipeline"
        /\ Len(pre[t].digests) = 1 /\ Len(cache_artifacts) = 1

\* the kinds of resource a call has created when the given step fails
CreatedBefore(step) ==
    IF step \in {"compile_spirv", "resolve", "shader_module"} THEN {}
    ELSE IF step \in {"specialization_count", "descriptorset_layout"} THEN {"shader_module"}
    ELSE IF step = "pipeline_layout" THEN {"shader_module", "descriptorset_layout"}
    ELSE IF step = "pipeline"
    THEN {"shader_module", "descriptorset_layout", "pipeline_layout"}
    ELSE {"shader_module", "descriptorset_layout", "pipeline_layout", "pipeline"}

\* C4 (rollback completeness): when a cached call has failed, the resources
\* it created are those of the steps before the failing one, each of them has
\* been destroyed exactly once, and the call destroyed nothing else.
RollbackComplete ==
    \A t \in Threads :
        (pc[t] = "done" /\ req[t].path = "cached" /\ out[t].ret = -1) =>
            LET mine     == Since(t, pre[t].mark)
                made     == CreatedSince(t, pre[t].mark)
                destroys == {i \in mine : dev_log[i].op = "destroy"}
            IN  /\ {dev_log[i].kind : i \in {j \in mine : dev_log[j].op = "create"
                                                          /\ dev_log[j].h # 0}}
                      = CreatedBefore(local[t].fail)
                /\ Cardinality(made) = Cardinality(CreatedBefore(local[t].fail))
                /\ \A h \in made : DestroyCount(dev_log, h) = 1
                /\ \A i \in destroys : dev_log[i].h \in made
                /\ Cardinality(destroys) = Cardinality(made)

RollbackWitness ==
    \E t \in Threads :
        /\ pc[t] = "done" /\ req[t].path = "cached" /\ out[t].ret = -1
        /\ local[t].fail = "descriptor_update_template"
        /\ Cardinality(CreatedSince(t, pre[t].mark)) = 4
        /\ \A h \in CreatedSince(t, pre[t].mark) : DestroyCount(dev_log, h) = 1

\* C5 (teardown completeness): clear() destroys every non-null handle of
\* every stored bundle exactly once and leaves both lists empty.
TeardownComplete ==
    [][clears' = clears + 1 =>
          /\ \A i \in 1..Len(cache_artifacts) :
                \A h \in HandlesOf(cache_artifacts[i]) : DestroyCount(dev_log', h) = 1
          /\ cache_digests' = <<>>
          /\ cache_artifacts' = <<>>]_vars

TeardownWitness ==
    /\ clears = 1
    /\ cache_digests = <<>> /\ cache_artifacts = <<>>
    /\ Cardinality({i \in 1..Len(dev_log) :
                       dev_log[i].by = "clear" /\ dev_log[i].kind = "shader_module"}) = 2
    /\ Cardinality({i \in 1..Len(dev_log) : dev_log[i].by = "clear"}) >= 8

Building == {"build", "push_digest", "push_digest_write", "push_artifact",
             "push_artifact_write"}

\* C6 (single build per key): no two callers are past a miss on the same key
\* at the same time, and no key is in the store twice.
SingleBuildPerKey ==
    /\ \A t1, t2 \in Threads :
          (t1 # t2 /\ pc[t1] \in Building /\ pc[t2] \in Building)
              => local[t1].key # local[t2].key
    /\ \A i, j \in 1..Len(cache_digests) :
          i # j => cache_digests[i] # cache_digests[j]

\* C7 (key/bundle correspondence): whenever a caller is about to read the
\* store, the key list and the bundle list have the same length and the
\* bundle at each index is the one that was built for the key at that index.
KeyBundleCorrespondence ==
    (\E t \in Threads : pc[t] = "find") =>
        /\ Len(cache_digests) = Len(cache_artifacts)
        /\ \A i \in 1..Len(cache_digests) :
              \E b \in built : /\ b.key = cache_digests[i]
                                /\ b.artifact = cache_artifacts[i]

\* the decision table of the variant selection: rule i is <<condition, offset>>
VariantRules(opt, info) ==
    LET img == ~info.bug_layout_binding_id_alias /\ opt.use_image_storage
        s   == info.support_fp16_storage /\ opt.use_fp16_storage
        p   == info.support_fp16_packed /\ opt.use_fp16_packed
        a   == info.support_fp16_arithmetic /\ opt.use_fp16_arithmetic
    IN  << <<img /\ s /\ a, 9>>, <<img /\ p /\ a, 7>>, <<img /\ s, 8>>, <<img /\ p, 6>>,
           <<img, 5>>, <<s /\ a, 4>>, <<p /\ a, 2>>, <<s, 3>>, <<p, 1>>, <<TRUE, 0>> >>

\* rule i is the first rule whose condition holds
FirstMatch(rules, i) == rules[i][1] /\ \A j \in 1..(i - 1) : ~rules[j][1]

\* C8 (variant priority table): the variant a call resolves is the base
\* kernel id plus the offset of the first matching rule, in the order +9, +7,
\* +8, +6, +5, +4, +2, +3, +1, +0; an input matching rules 1 and 6 gets +9, and
\* kernel 3 with image storage, fp16 storage and fp16 arithmetic requested and
\* supported and no erratum resolves to 12.
VariantPriorityTable ==
    \A t \in Threads :
        local[t].variant # -1 =>
            LET rules == VariantRules(req[t].opt, vkdev_info)
            IN  /\ \A i \in 1..Len(rules) :
                      FirstMatch(rules, i) =>
                          local[t].variant = req[t].shader_type_index + rules[i][2]
                /\ (rules[1][1] /\ rules[6][1]) =>
                      local[t].variant = req[t].shader_type_index + 9
                /\ ( /\ req[t].shader_type_index = 3
                     /\ req[t].opt.use_image_storage
                     /\ req[t].opt.use_fp16_storage /\ vkdev_info.support_fp16_storage
                     /\ req[t].opt.use_fp16_arithmetic
                     /\ vkdev_info.support_fp16_arithmetic
                     /\ ~vkdev_info.bug_layout_binding_id_alias )
                      => local[t].variant = 12

VariantPriorityWitness ==
    \E t \in Threads :
        /\ local[t].variant = 12 /\ req[t].shader_type_index = 3
        /\ VariantRules(req[t].opt, vkdev_info)[1][1]
        /\ VariantRules(req[t].opt, vkdev_info)[6][1]
        /\ req[t].opt.use_fp16_packed /\ vkdev_info.support_fp16_packed

\* C9 (erratum override): on a device with the binding-alias erratum the
\* resolved variant is never an image variant (offsets 5..9): it is the buffer
\* variant (offsets 0..4) the fp16 rules choose, whatever the request asks for.
ErratumOverride ==
    \A t \in Threads :
        (local[t].variant # -1 /\ vkdev_info.bug_layout_binding_id_alias) =>
            LET off == local[t].variant - req[t].shader_type_index
                s   == vkdev_info.support_fp16_storage /\ req[t].opt.use_fp16_storage
                p   == vkdev_info.support_fp16_packed /\ req[t].opt.use_fp16_packed
                a   == vkdev_info.support_fp16_arithmetic /\ req[t].opt.use_fp16_arithmetic
            IN  /\ off \in 0..4
                /\ off = IF s /\ a THEN 4 ELSE IF p /\ a THEN 2
                         ELSE IF s THEN 3 ELSE IF p THEN 1 ELSE 0

ErratumWitness ==
    \E t \in Threads :
        /\ vkdev_info.bug_layout_binding_id_alias
        /\ req[t].opt.use_image_storage
        /\ ~req[t].opt.use_fp16_storage /\ ~req[t].opt.use_fp16_packed
        /\ local[t].variant = req[t].shader_type_index

\* C10 (uncached bytecode path): a call of the bytecode entry point leaves
\* the key list and the bundle list as they were, whether it succeeds or
\* fails; unless reflection failed it carries the resolved signature and has
\* invoked the device; and when it succeeds every handle it returns was created
\* by this very call and none of them is held by the store.
UncachedBytecodePath ==
    \A t \in Threads :
        ReturnedFrom(t, "spv") =>
            /\ cache_digests = pre[t].digests
            /\ cache_artifacts = pre[t].artifacts
            /\ local[t].fail # "resolve" =>
                  /\ out[t].shader_info = resolve_shader_info(req[t].spv)
                  /\ \E i \in Since(t, pre[t].mark) :
                        dev_log[i].op = "create" /\ dev_log[i].kind = "shader_module"
            /\ out[t].ret = 0 =>
                  /\ out[t].shader_module # 0 /\ out[t].pipeline # 0
                  /\ HandlesOf(ArtifactOf(out[t])) \subseteq CreatedSince(t, pre[t].mark)
                  /\ \A i \in 1..Len(cache_artifacts) :
                        HandlesOf(cache_artifacts[i]) \cap HandlesOf(ArtifactOf(out[t])) = {}

\* a second successful bytecode call with the arguments of the first
UncachedBytecodeWitness ==
    \E t \in Threads :
        /\ ReturnedFrom(t, "spv") /\ out[t].ret = 0
        /\ pre[t].last_req = req[t]
        /\ \E i \in 1..pre[t].mark :
              /\ dev_log[i].op = "create" /\ dev_log[i].kind = "pipeline"
              /\ dev_log[i].h # 0 /\ DestroyCount(dev_log, dev_log[i].h) = 0

\* s is an initial segment of u
IsPrefix(s, u) ==
    /\ Len(s) <= Len(u)
    /\ \A i \in 1..Len(s) : u[i] = s[i]

\* C11 (bundle lifetime): while clear() has not run since a call began, the
\* store as it was at the entry of that call is an initial segment of the
\* store, entry for entry and field for field, during the call and after it,
\* whichever entry point was called; and no handle held by a bundle in the
\* store has been destroyed.
BundleLifetime ==
    /\ \A t \in Threads :
          (pc[t] # "idle" /\ clears = pre[t].clears) =>
              /\ IsPrefix(pre[t].digests, cache_digests)
              /\ IsPrefix(pre[t].artifacts, cache_artifacts)
    /\ \A i \in 1..Len(cache_artifacts) :
          \A h \in HandlesOf(cache_artifacts[i]) : DestroyCount(dev_log, h) = 0

\* a bundle was in the store when a call that builds and rolls back pipeline
\* objects began, and the call has returned
BundleLifetimeWitness ==
    \E t \in Threads :
        /\ pc[t] = "done" /\ clears = pre[t].clears
        /\ Len(pre[t].artifacts) = 1
        /\ HandlesOf(pre[t].artifacts[1]) # {}
        /\ out[t].ret = -1
        /\ \E i \in Since(t, pre[t].mark) : dev_log[i].op = "destroy"

\* C12 (key uniqueness): with one caller at a time no two entries of the
\* store have equal keys, and a key about to be appended is not in the store.
KeyUniqueness ==
    /\ \A i, j \in 1..Len(cache_digests) :
          DigestEq(cache_digests[i], cache_digests[j]) => i = j
    /\ \A t \in Threads :
          pc[t] \in {"push_digest", "push_digest_write"} =>
              \A i \in 1..Len(cache_digests) : ~DigestEq(cache_digests[i], local[t].key)

\* a second call with a different key has appended its build after the first
KeyUniquenessWitness ==
    \E t \in Threads :
        /\ ReturnedFrom(t, "cached") /\ out[t].ret = 0
        /\ Len(pre[t].digests) = 1 /\ Len(cache_digests) = 2
        /\ ~DigestEq(cache_digests[1], cache_digests[2])

\* requests a and b name the same kernel and specialization data and differ
\* in exactly one option flag or in exactly one local_size dimension
DiffersInOne(a, b) ==
    /\ a.shader_type_index = b.shader_type_index
    /\ a.specializations = b.specializations
    /\ Cardinality({f \in OptFlags : a.opt[f] # b.opt[f]})
         + Cardinality({d \in 1..3 : a.local_size[d] # b.local_size[d]}) = 1

DestroyRank(kind) ==
    CASE kind = "descriptor_update_template" -> 1
      [] kind = "pipeline" -> 2
      [] kind = "pipeline_layout" -> 3
      [] kind = "descriptorset_layout" -> 4
      [] kind = "shader_module" -> 5

\* the build that created handle h, named by the position in the device log
\* of the shader module create that began it
BuildOf(h) ==
    LET c == CHOOSE i \in 1..Len(dev_log) : dev_log[i].op = "create" /\ dev_log[i].h = h
    IN  CHOOSE i \in 1..c :
            /\ dev_log[i].op = "create" /\ dev_log[i].kind = "shader_module"
            /\ dev_log[i].h # 0 /\ dev_log[i].by = dev_log[c].by
            /\ \A j \in (i + 1)..c :
                  ~(dev_log[j].op = "create" /\ dev_log[j].kind = "shader_module"
                      /\ dev_log[j].by = dev_log[c].by)

\* C14 (destruction order): every destroy call is for a handle that was
\* created, and the handles of one build, whether destroyed by the rollback
\* of a failed call or by clear(), are destroyed in the order update
\* template, pipeline, pipeline layout, descriptor-set layout, shader module.
DestructionOrder ==
    \A j \in 1..Len(dev_log) :
        dev_log[j].op = "destroy" =>
            /\ dev_log[j].h # 0
            /\ \E c \in 1..(j - 1) :
                  /\ dev_log[c].op = "create" /\ dev_log[c].h = dev_log[j].h
                  /\ dev_log[c].kind = dev_log[j].kind
            /\ \A i \in 1..(j - 1) :
                  (dev_log[i].op = "destroy"
                     /\ BuildOf(dev_log[i].h) = BuildOf(dev_log[j].h)) =>
                      DestroyRank(dev_log[i].kind) < DestroyRank(dev_log[j].kind)

\* a failed call has rolled back the objects it had created, and clear() has
\* torn down a bundle that holds all five handles
DestructionOrderWitness ==
    /\ \E i \in 1..Len(dev_log) :
          /\ dev_log[i].op = "destroy" /\ dev_log[i].by # "clear"
          /\ dev_log[i].kind = "pipeline"
    /\ \E i \in 1..Len(dev_log) :
          /\ dev_log[i].op = "destroy" /\ dev_log[i].by = "clear"
          /\ dev_log[i].kind = "descriptor_update_template"
    /\ clears >= 1

\* caller t's call met a failure of signature resolution, of bytecode
\* compilation or of the creation of the shader module
EarlyFailure(t) ==
    \/ local[t].fail \in {"compile_spirv", "resolve"}
    \/ \E i \in Since(t, pre[t].mark) :
          dev_log[i].op = "create" /\ dev_log[i].kind = "shader_module" /\ dev_log[i].h = 0

\* C15 (failure before any device object exists): on either entry point a
\* call in which signature resolution, bytecode compilation or shader module
\* creation failed returns -1, and the only primitive it may have invoked is
\* the shader module creation that failed: no create of a descriptor-set
\* layout, pipeline layout, pipeline or update template, no destroy, and no
\* handle created.
FailureBeforeResources ==
    \A t \in Threads :
        (pc[t] = "done" /\ EarlyFailure(t)) =>
            /\ out[t].ret = -1
            /\ CreatedSince(t, pre[t].mark) = {}
            /\ \A i \in Since(t, pre[t].mark) :
                  /\ dev_log[i].op = "create"
                  /\ dev_log[i].kind = "shader_module"
                  /\ dev_log[i].h = 0

\* a cached call has failed at the creation of its shader module, after a
\* bytecode call that failed at signature resolution
FailureBeforeResourcesWitness ==
    \E t \in Threads :
        /\ pc[t] = "done" /\ req[t].path = "cached"
        /\ local[t].fail = "shader_module" /\ out[t].ret = -1
        /\ pre[t].last_req.path = "spv"
        /\ pre[t].mark = 0

\* C16 (configuration mismatch): a call that acquired a shader module and
\* whose number of specialization values differs from the count of the
\* signature returns -1 having invoked exactly two primitives: the creation
\* of that shader module and, after it, its destruction; none of the four
\* create steps runs and nothing is tried again.
ConfigurationMismatch ==
    \A t \in Threads :
        (/\ pc[t] = "done"
         /\ CreatedSince(t, pre[t].mark) # {}
         /\ Len(req[t].specializations) # out[t].shader_info.specialization_count) =>
            /\ out[t].ret = -1
            /\ \E i \in Since(t, pre[t].mark) :
                  /\ Since(t, pre[t].mark) = {i, i + 1}
                  /\ dev_log[i].op = "create" /\ dev_log[i].kind = "shader_module"
                  /\ dev_log[i].h # 0
                  /\ dev_log[i + 1].op = "destroy" /\ dev_log[i + 1].kind = "shader_module"
                  /\ dev_log[i + 1].h = dev_log[i].h
                  /\ DestroyCount(dev_log, dev_log[i].h) = 1

\* a cached call with two specialization values for a signature that
\* declares one has returned
ConfigurationMismatchWitness ==
    \E t \in Threads :
        /\ pc[t] = "done" /\ req[t].path = "cached"
        /\ local[t].fail = "specialization_count"
        /\ Len(req[t].specializations) = 2
        /\ out[t].shader_info.specialization_count = 1
        /\ Cardinality(Since(t, pre[t].mark)) = 2

\* every handle the device has handed out
CreatedHandles ==
    {dev_log[i].h : i \in {j \in 1..Len(dev_log) :
                              dev_log[j].op = "create" /\ dev_log[j].h # 0}}

\* the handles that have not been destroyed
LiveHandles == {h \in CreatedHandles : DestroyCount(dev_log, h) = 0}

\* the non-null handles of the artifacts in the store
StoredHandles == UNION {HandlesOf(cache_artifacts[i]) : i \in 1..Len(cache_artifacts)}

\* C17 (resource conservation): with one caller at a time and only the cached
\* entry point in use, whenever no call is in progress the live handles are
\* exactly the non-null handles of the artifacts in the store: a failed call
\* leaves none behind and a successful call leaves exactly its artifact's.
ResourceConservation ==
    (\A t \in Threads : ~InFlight(t)) => LiveHandles = StoredHandles

\* before any clear(), one call has failed after creating objects and
\* another has stored its artifact
ResourceConservationWitness ==
    /\ clears = 0
    /\ \A t \in Threads : ~InFlight(t)
    /\ Len(cache_artifacts) = 1
    /\ StoredHandles # {}
    /\ \E i \in 1..Len(dev_log) : dev_log[i].op = "destroy" /\ dev_log[i].kind = "pipeline_layout"

\* C18 (hit soundness): in the build that holds the variant table and on one
\* device, two calls that compute equal digests resolve to the same variant,
\* and when a call finds its digest in the store the entry it finds was built
\* with the variant the table selects for that call's shader_type_index and
\* options.
HitVariantSound ==
    /\ (pc[SecondCaller] \notin {"idle", "find"}
          /\ DigestEq(local[FirstCaller].key, local[SecondCaller].key)) =>
            select_variant(req[FirstCaller].shader_type_index, req[FirstCaller].opt,
                           vkdev_info)
              = select_variant(req[SecondCaller].shader_type_index,
                               req[SecondCaller].opt, vkdev_info)
    /\ \A t \in Threads :
          ReturnedFrom(t, "cached") =>
              \A i \in 1..Len(pre[t].digests) :
                  DigestEq(pre[t].digests[i], local[t].key) =>
                      \A b \in built :
                          b.artifact = pre[t].artifacts[i] =>
                              b.variant = select_variant(req[t].shader_type_index,
                                                         req[t].opt, vkdev_info)

\* the second call has found the entry the first call built from a variant
\* other than the base shader
HitVariantSoundWitness ==
    /\ ReturnedFrom(SecondCaller, "cached") /\ WasCached(SecondCaller)
    /\ out[SecondCaller].ret = 0
    /\ CreatedSince(SecondCaller, pre[SecondCaller].mark) = {}
    /\ \E b \in built :
          /\ b.artifact = ArtifactOf(out[SecondCaller])
          /\ b.variant = req[SecondCaller].shader_type_index + 9

\* C19 (no leak under races): once every call has returned and clear() has
\* run after them, every handle any call created has been destroyed exactly
\* once.
NoLeakUnderRaces ==
    (/\ clears >= 1
     /\ \A t \in Threads : ~InFlight(t) /\ (pc[t] = "done" => pre[t].clears < clears)) =>
        \A h \in CreatedHandles : DestroyCount(dev_log, h) = 1

\* every artifact ever stored has been through clear()
AllTornDown ==
    \A b \in built : \A h \in HandlesOf(b.artifact) : DestroyCount(dev_log, h) >= 1

\* C20 (teardown idempotent): a clear() that follows an earlier clear() with
\* nothing stored in between invokes no destroy primitive and leaves both
\* vectors empty.
TeardownIdempotent ==
    [][(clears' = clears + 1 /\ clears >= 1 /\ AllTornDown) =>
          (dev_log' = dev_log /\ cache_digests' = <<>> /\ cache_artifacts' = <<>>)]_vars

\* clear() has run twice after the last call returned, and the first run
\* destroyed the handles of a stored artifact
TeardownIdempotentWitness ==
    /\ clears = 2
    /\ \A t \in SeqThreads : pc[t] = "done" /\ pre[t].clears = 0
    /\ \E i \in 1..Len(dev_log) : dev_log[i].op = "destroy" /\ dev_log[i].by = "clear"
    /\ \A h \in CreatedHandles : DestroyCount(dev_log, h) = 1
    /\ cache_digests = <<>> /\ cache_artifacts = <<>>

TypeOK ==
    /\ Len(cache_digests) <= MaxCalls
    /\ \A t \in Threads : out[t].ret \in {NoRet, 0, -1}
====
